---- MODULE Spec2Model ----
(***************************************************************************)
(* Coinbase exchange tentacle: the instant-retry decorator, the exchange   *)
(* operations built on it, the OHLCV request parameters and the ccxt       *)
(* adapter's order / trade fixes (coinbase_exchange.py).                   *)
(*                                                                         *)
(* Optional values (Python None or a value) are sets: {} is None and {v}   *)
(* is the value v.  Dictionaries are functions whose domain is the set of  *)
(* keys present.  Error texts are sequences of one-character strings.      *)
(***************************************************************************)
EXTENDS Integers, Sequences, FiniteSets

VARIABLES
    pc,           \* per call: "idle", "awaiting", "returned", "raised"
    op,           \* per call: the operation called
    args,         \* per call: the arguments the code inspects
    entered,      \* per call: coinbase_retrier_wrapper was entered
    i,            \* per call: loop index of the retrier
    invocations,  \* per call: number of runs of the wrapped function started
    outcome,      \* per call: outcome of the latest run that has completed
    marker_failures, \* per call: runs that raised a caught error holding the code
    request,      \* per call: keyword arguments of the latest super() request
    now,          \* per call: latest value read from client.milliseconds()
    last_error,   \* per call: the retrier's last_error
    result,       \* per call: value returned to the caller
    raised,       \* per call: error raised to the caller
    cause,        \* per call: __cause__ of the raised error
    kind,         \* adapter: "none", "order" or "trades" response being fixed
    raw_order,    \* adapter: the order as received
    fixed_order,  \* adapter: the order after the fix_order passes so far
    prev_order,   \* adapter: the order before the latest fix_order pass
    order_passes, \* adapter: number of fix_order passes applied
    raw_trades,   \* adapter: the trades as received
    fixed_trades, \* adapter: the trades after fix_trades
    trades_done   \* adapter: fix_trades has run

retryVars == <<pc, op, args, entered, i, invocations, outcome, marker_failures,
               request, now, last_error, result, raised, cause>>
adapterVars == <<kind, raw_order, fixed_order, prev_order, order_passes, raw_trades,
                 fixed_trades, trades_done>>
vars == <<retryVars, adapterVars>>

-----------------------------------------------------------------------------
(* Bounds *)

NumCalls == 2
MaxTrades == 2
MaxPasses == 2

Calls == 1..NumCalls

-----------------------------------------------------------------------------
(* Python values *)

None == {}
Some(v) == {v}
Val(o) == CHOOSE v \in o : TRUE
\* bool(o) of an optional number: None and 0 are false
Truthy(o) == o # None /\ o # Some(0)
EmptyDict == [k \in {} |-> 0]
DictSet(d, key, v) == [k \in DOMAIN d \cup {key} |-> IF k = key THEN v ELSE d[k]]
MinOf(a, b) == IF a <= b THEN a ELSE b

-----------------------------------------------------------------------------
(* Class constants *)

FAKE_RATE_LIMIT_ERROR_INSTANT_RETRY_COUNT == 5
INSTANT_RETRY_ERROR_CODE == <<"4", "2", "9">>
MAX_PAGINATION_LIMIT == 300
MSECONDS_TO_MINUTE == 60000
DEFAULT_ACCOUNT_ID == "default_account_id"

-----------------------------------------------------------------------------
(* Errors *)

RetryableKinds == {"FailedRequest", "RateLimitExceeded", "BaseError"}

\* one text holding the code inside other characters, one near miss
ErrorTexts == { <<"e", "4", "4", "2", "9", "!">>,
                <<"4", "2", "e", "9">> }

NoError == [kind |-> "None", text |-> <<>>, attempt |-> 0]

\* errors the n-th run of a wrapped function can raise; a cancellation carries
\* no text
ErrorsAt(n) ==
    { [kind |-> k, text |-> t, attempt |-> n] :
        k \in RetryableKinds \cup {"ValueError"}, t \in ErrorTexts }
    \cup { [kind |-> "CancelledError", text |-> <<>>, attempt |-> n] }

Success == [ok |-> TRUE, err |-> NoError]
NoOutcome == [ok |-> FALSE, err |-> NoError]
Failure(e) == [ok |-> FALSE, err |-> e]
OutcomesAt(n) == {Success} \cup { Failure(e) : e \in ErrorsAt(n) }

\* needle in haystack, on texts
Contains(haystack, needle) ==
    \E k \in 0..(Len(haystack) - Len(needle)) :
        SubSeq(haystack, k + 1, k + Len(needle)) = needle

\* a run of the wrapped function that raised one of the three caught kinds
\* with "429" in its text
FailsWithMarker(o) ==
    /\ ~o.ok
    /\ o.err.kind \in RetryableKinds
    /\ Contains(o.err.text, <<"4", "2", "9">>)

\* an except clause that catches every error
IsCaughtAny(err) == TRUE

\* the except clause of the retrier
IsCaught(err) == err.kind \in RetryableKinds

\* a retrier that retries whatever the text of the error
ShouldRetryAlways(err) == TRUE

\* Coinbase.INSTANT_RETRY_ERROR_CODE in str(err)
ShouldRetry(err) == Contains(err.text, INSTANT_RETRY_ERROR_CODE)

\* the FailedRequest raised without "from last_error"
ExhaustedErrorNoCause(last) ==
    [error |-> [kind |-> "FailedRequest",
                text |-> <<"after", "5", "retries", "due", "to">>
                         \o INSTANT_RETRY_ERROR_CODE
                         \o <<"last", "error">> \o last.text \o <<last.kind>>,
                attempt |-> 0],
     cause |-> NoError]

\* the FailedRequest raised once the loop is exhausted, and its cause
ExhaustedError(last) ==
    [error |-> [kind |-> "FailedRequest",
                text |-> <<"after", "5", "retries", "due", "to">>
                         \o INSTANT_RETRY_ERROR_CODE
                         \o <<"last", "error">> \o last.text \o <<last.kind>>,
                attempt |-> 0],
     cause |-> last]

NotSupportedError == [kind |-> "NotSupported", text |-> <<"current_price is required">>,
                      attempt |-> 0]

-----------------------------------------------------------------------------
(* Operations *)

DecoratedOps == {"_load_markets", "get_symbol_prices", "get_recent_trades",
                 "get_price_ticker", "get_all_currencies_price_ticker",
                 "cancel_order", "get_balance", "_create_order_with_retry",
                 "get_open_orders", "get_order"}

TimeFrames == {"1m", "1h"}
TimeFramesMinutes(tf) == IF tf = "1m" THEN 1 ELSE 60
Clock == {1000000, 1000060}
InputLimits == {None, Some(0), Some(1), Some(300), Some(301), Some(500)}
SinceKwargs == {EmptyDict, [since |-> 5]}
V3Kwargs == {EmptyDict, [v3 |-> TRUE], [v3 |-> FALSE]}
OrderTypes == {"BUY_MARKET", "SELL_MARKET", "BUY_LIMIT", "SELL_LIMIT", "STOP_LOSS"}
CurrentPrices == {None, Some(0), Some(100)}

\* Coinbase._get_ohlcv_params
GetOhlcvParams(time_frame, input_limit, kwargs, to_time) ==
    LET limit == IF ~Truthy(input_limit) \/ Val(input_limit) > MAX_PAGINATION_LIMIT
                 THEN IF Truthy(input_limit)
                      THEN MinOf(MAX_PAGINATION_LIMIT, Val(input_limit))
                      ELSE MAX_PAGINATION_LIMIT
                 ELSE Val(input_limit)
        time_frame_sec == TimeFramesMinutes(time_frame) * MSECONDS_TO_MINUTE
    IN IF "since" \notin DOMAIN kwargs
       THEN DictSet(DictSet(kwargs, "since", to_time - (time_frame_sec * limit)),
                    "limit", limit)
       ELSE kwargs

\* Coinbase.get_balance: the keyword arguments sent on
GetBalanceKwargs(kwargs) ==
    IF "v3" \notin DOMAIN kwargs THEN DictSet(kwargs, "v3", TRUE) ELSE kwargs

\* a create_order that asks for current_price whatever the order type
RequiresCurrentPriceAnyType(order_type, current_price) == ~Truthy(current_price)

\* Coinbase.create_order: the order is refused before any request
RequiresCurrentPrice(order_type, current_price) ==
    order_type = "BUY_MARKET" /\ ~Truthy(current_price)

\* whether the body of the wrapped function reads the client clock
ReadsClock(o, a) == o = "get_symbol_prices" /\ "since" \notin DOMAIN a.kwargs

\* the keyword arguments the wrapped function hands to super()
RequestOf(o, a, to_time) ==
    IF o = "get_symbol_prices"
    THEN GetOhlcvParams(a.time_frame, a.limit, a.kwargs, to_time)
    ELSE IF o = "get_balance" THEN GetBalanceKwargs(a.kwargs)
    ELSE a

\* clock values the body of the wrapped function may read
ClockReads(o, a) == IF ReadsClock(o, a) THEN Clock ELSE {0}

\* entering coinbase_retrier_wrapper: the wrapper runs up to the await of the
\* first run of the wrapped function, whose body has built its request
EnterRetrier(c, o, a) ==
    /\ pc[c] = "idle"
    /\ pc' = [pc EXCEPT ![c] = "awaiting"]
    /\ op' = [op EXCEPT ![c] = o]
    /\ args' = [args EXCEPT ![c] = a]
    /\ entered' = [entered EXCEPT ![c] = TRUE]
    /\ i' = [i EXCEPT ![c] = 0]
    /\ last_error' = [last_error EXCEPT ![c] = NoError]
    /\ invocations' = [invocations EXCEPT ![c] = 1]
    /\ \E t \in ClockReads(o, a) :
        /\ now' = [now EXCEPT ![c] = t]
        /\ request' = [request EXCEPT ![c] = RequestOf(o, a, t)]
    /\ UNCHANGED <<outcome, marker_failures, result, raised, cause>>
    /\ UNCHANGED adapterVars

\* a loop index kept in one place for all calls
LoopIndexShared(c) == i[1]

\* the loop index of call c's wrapper
LoopIndex(c) == i[c]

\* the await of the retrier completes: the outcome of the run is handled and,
\* on a retry, the next run of the wrapped function starts and is awaited; the
\* wrapper's locals (i, last_error) go with its frame when it returns or raises
Resume(c) ==
    /\ pc[c] = "awaiting"
    /\ entered[c]
    /\ LoopIndex(c) < FAKE_RATE_LIMIT_ERROR_INSTANT_RETRY_COUNT
    /\ \E o \in OutcomesAt(invocations[c]) :
        /\ outcome' = [outcome EXCEPT ![c] = o]
        /\ marker_failures' = [marker_failures EXCEPT
                                 ![c] = IF FailsWithMarker(o) THEN @ + 1 ELSE @]
        /\ IF o.ok
           THEN /\ pc' = [pc EXCEPT ![c] = "returned"]
                /\ result' = [result EXCEPT ![c] = <<"response", invocations[c]>>]
                /\ i' = [i EXCEPT ![c] = 0]
                /\ last_error' = [last_error EXCEPT ![c] = NoError]
                /\ UNCHANGED <<invocations, request, now, raised, cause>>
           ELSE IF ~IsCaught(o.err) \/ ~ShouldRetry(o.err)
           THEN /\ pc' = [pc EXCEPT ![c] = "raised"]
                /\ raised' = [raised EXCEPT ![c] = o.err]
                /\ i' = [i EXCEPT ![c] = 0]
                /\ last_error' = [last_error EXCEPT ![c] = NoError]
                /\ UNCHANGED <<invocations, request, now, result, cause>>
           ELSE IF LoopIndex(c) + 1 < FAKE_RATE_LIMIT_ERROR_INSTANT_RETRY_COUNT
           THEN /\ i' = [i EXCEPT ![c] = LoopIndex(c) + 1]
                /\ last_error' = [last_error EXCEPT ![c] = o.err]
                /\ invocations' = [invocations EXCEPT ![c] = @ + 1]
                /\ \E t \in ClockReads(op[c], args[c]) :
                    /\ now' = [now EXCEPT ![c] = t]
                    /\ request' = [request EXCEPT
                                     ![c] = RequestOf(op[c], args[c], t)]
                /\ UNCHANGED <<pc, result, raised, cause>>
           ELSE /\ pc' = [pc EXCEPT ![c] = "raised"]
                /\ raised' = [raised EXCEPT ![c] = ExhaustedError(o.err).error]
                /\ cause' = [cause EXCEPT ![c] = ExhaustedError(o.err).cause]
                /\ i' = [i EXCEPT ![c] = 0]
                /\ last_error' = [last_error EXCEPT ![c] = NoError]
                /\ UNCHANGED <<invocations, request, now, result>>
    /\ UNCHANGED <<op, args, entered>>
    /\ UNCHANGED adapterVars

\* an operation without the decorator sends its one request and awaits it
SendUnwrapped(c, o) ==
    /\ pc[c] = "idle"
    /\ pc' = [pc EXCEPT ![c] = "awaiting"]
    /\ op' = [op EXCEPT ![c] = o]
    /\ invocations' = [invocations EXCEPT ![c] = 1]
    /\ UNCHANGED <<args, entered, i, outcome, marker_failures, request, now,
                   last_error, result, raised, cause>>
    /\ UNCHANGED adapterVars

\* the await of a request made outside the retrier completes: get_account_id
\* returns the id, or the default id on a ccxt BaseError; any other error
\* leaves the operation
ResumeUnwrapped(c) ==
    /\ pc[c] = "awaiting"
    /\ ~entered[c]
    /\ \E o \in OutcomesAt(1) :
        /\ outcome' = [outcome EXCEPT ![c] = o]
        /\ marker_failures' = [marker_failures EXCEPT
                                 ![c] = IF FailsWithMarker(o) THEN 1 ELSE 0]
        /\ IF o.ok
           THEN /\ pc' = [pc EXCEPT ![c] = "returned"]
                /\ result' = [result EXCEPT ![c] = <<"response", 1>>]
                /\ UNCHANGED raised
           ELSE IF op[c] = "get_account_id" /\ o.err.kind = "BaseError"
           THEN /\ pc' = [pc EXCEPT ![c] = "returned"]
                /\ result' = [result EXCEPT ![c] = <<DEFAULT_ACCOUNT_ID, 0>>]
                /\ UNCHANGED raised
           ELSE /\ pc' = [pc EXCEPT ![c] = "raised"]
                /\ raised' = [raised EXCEPT ![c] = o.err]
                /\ UNCHANGED result
    /\ UNCHANGED <<op, args, entered, i, invocations, request, now, last_error, cause>>
    /\ UNCHANGED adapterVars

\* CoinbaseConnector._load_markets
LoadMarkets(c) == EnterRetrier(c, "_load_markets", EmptyDict)

\* Coinbase.get_account_id, up to its await
GetAccountId(c) == SendUnwrapped(c, "get_account_id")

\* Coinbase.get_symbol_prices
GetSymbolPrices(c) ==
    \E tf \in TimeFrames, l \in InputLimits, kw \in SinceKwargs :
        EnterRetrier(c, "get_symbol_prices",
                     [time_frame |-> tf, limit |-> l, kwargs |-> kw])

\* Coinbase.get_recent_trades
GetRecentTrades(c) == EnterRetrier(c, "get_recent_trades", EmptyDict)

\* Coinbase.get_price_ticker
GetPriceTicker(c) == EnterRetrier(c, "get_price_ticker", EmptyDict)

\* Coinbase.get_all_currencies_price_ticker
GetAllCurrenciesPriceTicker(c) ==
    EnterRetrier(c, "get_all_currencies_price_ticker", EmptyDict)

\* Coinbase.create_order, and the _create_order_with_retry it reaches through
\* super().create_order
CreateOrder(c) ==
    \E ot \in OrderTypes, cp \in CurrentPrices :
        IF RequiresCurrentPrice(ot, cp)
        THEN /\ pc[c] = "idle"
             /\ pc' = [pc EXCEPT ![c] = "raised"]
             /\ op' = [op EXCEPT ![c] = "create_order"]
             /\ args' = [args EXCEPT ![c] = [order_type |-> ot, current_price |-> cp]]
             /\ raised' = [raised EXCEPT ![c] = NotSupportedError]
             /\ UNCHANGED <<entered, i, invocations, outcome, marker_failures,
                            request, now, last_error, result, cause>>
             /\ UNCHANGED adapterVars
        ELSE EnterRetrier(c, "_create_order_with_retry",
                          [order_type |-> ot, current_price |-> cp])

\* Coinbase.cancel_order
CancelOrder(c) == EnterRetrier(c, "cancel_order", EmptyDict)

\* Coinbase.get_balance
GetBalance(c) ==
    \E kw \in V3Kwargs : EnterRetrier(c, "get_balance", [kwargs |-> kw])

\* Coinbase.get_open_orders
GetOpenOrders(c) == EnterRetrier(c, "get_open_orders", EmptyDict)

\* a get_order without the decorator
GetOrderUndecorated(c) == SendUnwrapped(c, "get_order")

\* Coinbase.get_order
GetOrder(c) == EnterRetrier(c, "get_order", EmptyDict)

-----------------------------------------------------------------------------
(* Specifications of the exchange operations *)

InitCalls ==
    /\ pc = [c \in Calls |-> "idle"]
    /\ op = [c \in Calls |-> "none"]
    /\ args = [c \in Calls |-> EmptyDict]
    /\ entered = [c \in Calls |-> FALSE]
    /\ i = [c \in Calls |-> 0]
    /\ invocations = [c \in Calls |-> 0]
    /\ outcome = [c \in Calls |-> NoOutcome]
    /\ marker_failures = [c \in Calls |-> 0]
    /\ request = [c \in Calls |-> EmptyDict]
    /\ now = [c \in Calls |-> 0]
    /\ last_error = [c \in Calls |-> NoError]
    /\ result = [c \in Calls |-> <<"none", 0>>]
    /\ raised = [c \in Calls |-> NoError]
    /\ cause = [c \in Calls |-> NoError]

InitIdleAdapter ==
    /\ kind = "none"
    /\ raw_order = EmptyDict
    /\ fixed_order = EmptyDict
    /\ prev_order = EmptyDict
    /\ order_passes = 0
    /\ raw_trades = <<>>
    /\ fixed_trades = <<>>
    /\ trades_done = FALSE

Init == InitCalls /\ InitIdleAdapter

\* one caller using every operation of the exchange
Next ==
    \/ LoadMarkets(1)
    \/ GetAccountId(1)
    \/ GetSymbolPrices(1)
    \/ GetRecentTrades(1)
    \/ GetPriceTicker(1)
    \/ GetAllCurrenciesPriceTicker(1)
    \/ CreateOrder(1)
    \/ CancelOrder(1)
    \/ GetBalance(1)
    \/ GetOpenOrders(1)
    \/ GetOrder(1)
    \/ Resume(1)
    \/ ResumeUnwrapped(1)

Spec == Init /\ [][Next]_vars

\* concurrent callers of retrier-decorated operations
NextConcurrent ==
    \E c \in Calls :
        \/ LoadMarkets(c)
        \/ Resume(c)

SpecConcurrent == Init /\ [][NextConcurrent]_vars

-----------------------------------------------------------------------------
(* CoinbaseCCXTAdapter: fix_order and fix_trades *)

OrderTypeValues == {None, Some("limit"), Some("market")}
OrderStopPrices == {None, Some(0), Some(100)}
OrderPrices == {None, Some(0), Some(110)}
OrderStatuses == {None, Some("PENDING"), Some("CANCEL_QUEUED"), Some("open")}
OrderAmounts == {None, Some(0), Some(6)}
OrderFilled == {None, Some(0), Some(3)}

\* orders as super().fix_order returns them
Orders == [type : OrderTypeValues, stopPrice : OrderStopPrices, price : OrderPrices,
           status : OrderStatuses, amount : OrderAmounts, filled : OrderFilled]

\* a type inference whose tests are independent: the price test comes first
InferOrderTypeIndependent(fixed) ==
    IF fixed.price = None THEN "market"
    ELSE IF fixed.stopPrice # None THEN "stop_loss"
    ELSE "limit"

\* fix_order: the type of an order that has none
InferOrderType(fixed) ==
    IF fixed.stopPrice # None THEN "stop_loss"
    ELSE IF fixed.price = None THEN "market"
    ELSE "limit"

FixOrderType(fixed) ==
    IF fixed.type = None
    THEN [fixed EXCEPT !.type = Some(InferOrderType(fixed))]
    ELSE fixed

\* a status fix that forgets CANCEL_QUEUED
FixOrderStatusPendingOnly(fixed) ==
    IF fixed.status = Some("PENDING")
    THEN [fixed EXCEPT !.status = Some("pending_creation")]
    ELSE fixed

\* fix_order: the two status tests, one after the other
FixOrderStatus(fixed) ==
    LET pending == IF fixed.status = Some("PENDING")
                   THEN [fixed EXCEPT !.status = Some("pending_creation")]
                   ELSE fixed
    IN IF pending.status = Some("CANCEL_QUEUED")
       THEN [pending EXCEPT !.status = Some("pending_cancel")]
       ELSE pending

\* an amount fix that adds filled to the amount on every pass
FixOrderAmountAccumulating(fixed) ==
    IF Truthy(fixed.filled)
    THEN [fixed EXCEPT !.amount = Some((IF fixed.amount = None THEN 0
                                         ELSE Val(fixed.amount)) + Val(fixed.filled))]
    ELSE fixed

\* fix_order: amount taken from filled
FixOrderAmount(fixed) ==
    IF ~Truthy(fixed.amount) /\ Truthy(fixed.filled)
    THEN [fixed EXCEPT !.amount = fixed.filled]
    ELSE fixed

\* CoinbaseCCXTAdapter.fix_order, on the record super().fix_order returned
FixOrder(fixed) == FixOrderAmount(FixOrderStatus(FixOrderType(fixed)))

TradeStatuses == {None, Some("open")}
\* The numbers of a trade are Python floats, IEEE-754 doubles: a sign, the
\* exponent e of the leading bit and the 53-bit significand m (leading bit
\* included) kept as two limbs, m = hi * 2^27 + lo; the value is
\* m * 2^(e - 52), and zero has m = 0.  757.05 is Float(FALSE, 9, 49614028,
\* 107374182) and 111.34 is Float(FALSE, 6, 58374225, 123480310).  Operands and
\* quotients are finite and normal (no inf, nan or subnormal).
LimbBase == 134217728
Float(neg, exp, hi, lo) == [neg |-> neg, exp |-> exp, hi |-> hi, lo |-> lo]
Limbs(h, l) == [hi |-> h, lo |-> l]
LimbsGeq(a, b) == a.hi > b.hi \/ (a.hi = b.hi /\ a.lo >= b.lo)
\* a - b, for a >= b
LimbsSub(a, b) ==
    IF a.lo >= b.lo
    THEN Limbs(a.hi - b.hi, a.lo - b.lo)
    ELSE Limbs(a.hi - b.hi - 1, (a.lo + LimbBase) - b.lo)
\* 2 * a + bit
LimbsShift(a, bit) ==
    LET l == 2 * a.lo + bit
    IN Limbs(2 * a.hi + (l \div LimbBase), l % LimbBase)

\* n more steps of the binary long division by d, from the state s: the
\* quotient bits gathered so far (q) and the remainder (r)
RECURSIVE LongDivision(_, _, _)
LongDivision(s, d, n) ==
    IF n = 0 THEN s
    ELSE LET r2 == LimbsShift(s.r, 0)
         IN IF LimbsGeq(r2, d)
            THEN LongDivision([q |-> LimbsShift(s.q, 1), r |-> LimbsSub(r2, d)],
                              d, n - 1)
            ELSE LongDivision([q |-> LimbsShift(s.q, 0), r |-> r2], d, n - 1)

\* a / b of two floats, b # 0: the quotient of the two doubles rounded to the
\* nearest double, ties to even
FloatDiv(a, b) ==
    IF a.hi = 0 /\ a.lo = 0 THEN Float(a.neg # b.neg, 0, 0, 0)
    ELSE
    LET ma == Limbs(a.hi, a.lo)
        mb == Limbs(b.hi, b.lo)
        ge == LimbsGeq(ma, mb)
        \* the dividend scaled so that the quotient lies in [1, 2)
        n == IF ge THEN ma ELSE LimbsShift(ma, 0)
        e == IF ge THEN a.exp - b.exp ELSE (a.exp - b.exp) - 1
        \* the 53 leading bits of the quotient, and the remainder
        d == LongDivision([q |-> Limbs(0, 1), r |-> LimbsSub(n, mb)], mb, 52)
        twice == LimbsShift(d.r, 0)
        up == IF twice = mb THEN d.q.lo % 2 = 1 ELSE LimbsGeq(twice, mb)
        m == IF ~up THEN d.q
             ELSE IF d.q.lo + 1 < LimbBase THEN Limbs(d.q.hi, d.q.lo + 1)
             ELSE Limbs(d.q.hi + 1, 0)
    IN IF m.hi * 2 = LimbBase
       THEN Float(a.neg # b.neg, e + 1, m.hi \div 2, 0)
       ELSE Float(a.neg # b.neg, e, m.hi, m.lo)

\* bool(o) of an optional trade number
TruthyNumber(o) == o # None /\ ~(Val(o).hi = 0 /\ Val(o).lo = 0)

\* amounts: None or 5.0; costs: 0.0, 757.05; prices: 0.0, 2.0, 111.34
TradeAmounts == {None, Some(Float(FALSE, 2, 41943040, 0))}
TradeCosts ==
    {Some(Float(FALSE, 0, 0, 0)), Some(Float(FALSE, 9, 49614028, 107374182))}
TradePrices ==
    {Some(Float(FALSE, 0, 0, 0)), Some(Float(FALSE, 1, 33554432, 0)),
     Some(Float(FALSE, 6, 58374225, 123480310))}
\* keys a trade may lack
OptionalTradeKeys == {"amount", "cost", "price"}

\* trades as super().fix_trades returns them: dictionaries that may lack a key
Trades ==
    UNION { { [k \in ({"status"} \cup (OptionalTradeKeys \ absent)) |->
                 IF k = "status" THEN st
                 ELSE IF k = "amount" THEN am
                 ELSE IF k = "cost" THEN co ELSE pr] :
              st \in TradeStatuses, am \in TradeAmounts,
              co \in TradeCosts, pr \in TradePrices } :
            absent \in {{}, {"amount"}, {"cost"}, {"price"}} }

TradeBatches == UNION { [1..n -> Trades] : n \in 0..MaxTrades }

\* fix_trades: the status every trade gets
TradeStatus(trade) == Some("closed")

\* fix_trades: the body of the loop; a missing key ends the try block
FixTrade(trade) ==
    LET closed == DictSet(trade, "status", TradeStatus(trade))
    IN IF "amount" \notin DOMAIN closed THEN closed
       ELSE IF closed.amount # None THEN closed
       ELSE IF "cost" \notin DOMAIN closed THEN closed
       ELSE IF ~TruthyNumber(closed.cost) THEN closed
       ELSE IF "price" \notin DOMAIN closed THEN closed
       ELSE IF ~TruthyNumber(closed.price) THEN closed
       ELSE DictSet(closed, "amount",
                    Some(FloatDiv(Val(closed.cost), Val(closed.price))))

\* CoinbaseCCXTAdapter.fix_trades, on the list super().fix_trades returned
FixTrades(raw) == [k \in 1..Len(raw) |-> FixTrade(raw[k])]

\* the adapter fixes an order (again, when the order comes back through it)
FixOrderCall ==
    /\ kind = "order"
    /\ order_passes < MaxPasses
    /\ fixed_order' = FixOrder(fixed_order)
    /\ prev_order' = fixed_order
    /\ order_passes' = order_passes + 1
    /\ UNCHANGED <<kind, raw_order, raw_trades, fixed_trades, trades_done>>
    /\ UNCHANGED retryVars

\* the adapter fixes a list of trades
FixTradesCall ==
    /\ kind = "trades"
    /\ ~trades_done
    /\ fixed_trades' = FixTrades(raw_trades)
    /\ trades_done' = TRUE
    /\ UNCHANGED <<kind, raw_order, fixed_order, prev_order, order_passes, raw_trades>>
    /\ UNCHANGED retryVars

InitAdapter ==
    \/ /\ kind = "order"
       /\ raw_order \in Orders
       /\ fixed_order = raw_order
       /\ prev_order = raw_order
       /\ order_passes = 0
       /\ raw_trades = <<>>
       /\ fixed_trades = <<>>
       /\ trades_done = FALSE
    \/ /\ kind = "trades"
       /\ raw_order = EmptyDict
       /\ fixed_order = EmptyDict
       /\ prev_order = EmptyDict
       /\ order_passes = 0
       /\ raw_trades \in TradeBatches
       /\ fixed_trades = raw_trades
       /\ trades_done = FALSE

InitNormalize == InitCalls /\ InitAdapter

NextNormalize == FixOrderCall \/ FixTradesCall

SpecNormalize == InitNormalize /\ [][NextNormalize]_vars

-----------------------------------------------------------------------------
(* Properties *)

RaisedByRun(c) == pc[c] = "raised" /\ raised[c].attempt >= 1

\* the number of runs of the wrapped function whose await has completed
CompletedRuns(c) ==
    IF pc[c] = "awaiting" THEN invocations[c] - 1 ELSE invocations[c]

\* C1: a retrier call whose every run of the wrapped function fails with one of
\* the three caught kinds and "429" in the text keeps retrying until the fifth
\* run, never runs a sixth, and then raises a new FailedRequest whose cause is
\* the error of the fifth run.
C1_ExhaustedRetries ==
    \A c \in Calls :
        /\ invocations[c] <= 5
        /\ (entered[c] /\ CompletedRuns(c) >= 1 /\ marker_failures[c] = CompletedRuns(c))
           => /\ CompletedRuns(c) < 5 =>
                   /\ pc[c] = "awaiting"
                   /\ invocations[c] = CompletedRuns(c) + 1
                   /\ last_error[c] = outcome[c].err
              /\ CompletedRuns(c) = 5 =>
                   /\ pc[c] = "raised"
                   /\ raised[c].kind = "FailedRequest"
                   /\ raised[c].attempt = 0
                   /\ cause[c] = outcome[c].err
                   /\ cause[c].attempt = 5

C1_Witness ==
    \E c \in Calls :
        /\ entered[c] /\ pc[c] = "raised"
        /\ invocations[c] = 5 /\ marker_failures[c] = 5
        /\ raised[c].kind = "FailedRequest" /\ cause[c].attempt = 5

\* C2: when a run of the wrapped function fails with one of the three caught
\* kinds and no "429" in the text, the retrier raises that very error, without
\* a cause of its own making, and that run is the last one, on the first
\* attempt as on a later one.
C2_NoMarkerReraised ==
    \A c \in Calls :
        /\ (/\ entered[c] /\ outcome[c] # NoOutcome /\ ~outcome[c].ok
            /\ outcome[c].err.kind \in {"FailedRequest", "RateLimitExceeded", "BaseError"}
            /\ ~Contains(outcome[c].err.text, <<"4", "2", "9">>))
           => /\ pc[c] = "raised"
              /\ raised[c] = outcome[c].err
              /\ cause[c] = NoError
        /\ (entered[c] /\ RaisedByRun(c)) => raised[c].attempt = invocations[c]

C2_Witness ==
    \E c \in Calls :
        /\ entered[c] /\ pc[c] = "raised"
        /\ invocations[c] = 3 /\ marker_failures[c] = 2
        /\ raised[c].kind = "RateLimitExceeded" /\ raised[c].attempt = 3
        /\ ~Contains(raised[c].text, <<"4", "2", "9">>)

\* C3: an error of another kind than the three caught ones, a cancellation
\* that reaches the awaited run included, leaves the retrier on the attempt
\* that raised it, unchanged, and the wrapped function is not run again, also
\* when its text holds "429".
C3_OtherKindsPropagate ==
    \A c \in Calls :
        /\ (/\ entered[c] /\ outcome[c] # NoOutcome /\ ~outcome[c].ok
            /\ outcome[c].err.kind \notin {"FailedRequest", "RateLimitExceeded", "BaseError"})
           => /\ pc[c] = "raised"
              /\ raised[c] = outcome[c].err
              /\ raised[c].attempt = invocations[c]
              /\ cause[c] = NoError
        /\ (entered[c] /\ RaisedByRun(c)) => raised[c].attempt = invocations[c]

C3_Witness ==
    \E c \in Calls :
        /\ entered[c] /\ pc[c] = "raised"
        /\ invocations[c] = 2 /\ marker_failures[c] = 1
        /\ raised[c].kind = "ValueError" /\ raised[c].attempt = 2
        /\ Contains(raised[c].text, <<"4", "2", "9">>)

IsCreateOrder(c) == op[c] \in {"create_order", "_create_order_with_retry"}

\* C4 as claimed: create_order refuses a market buy with NotSupported and no
\* request when current_price is absent (None), and forwards every other call.
C4_Original ==
    \A c \in Calls :
        IsCreateOrder(c) =>
            IF args[c].order_type = "BUY_MARKET" /\ args[c].current_price = None
            THEN /\ pc[c] = "raised" /\ raised[c].kind = "NotSupported"
                 /\ invocations[c] = 0 /\ ~entered[c]
            ELSE entered[c]

\* C4 as amended: create_order refuses a market buy with NotSupported and no
\* request when current_price is absent or zero; every other order type, and a
\* market buy with a non-zero current_price, goes on to the retrier-wrapped
\* create-order.
C4_MarketBuyNeedsPrice ==
    \A c \in Calls :
        IsCreateOrder(c) =>
            IF /\ args[c].order_type = "BUY_MARKET"
               /\ args[c].current_price \in {None, Some(0)}
            THEN /\ pc[c] = "raised" /\ raised[c].kind = "NotSupported"
                 /\ invocations[c] = 0 /\ ~entered[c]
            ELSE entered[c] /\ raised[c].kind # "NotSupported"

C4_Witness ==
    \E c \in Calls :
        /\ op[c] = "create_order"
        /\ args[c].order_type = "BUY_MARKET" /\ args[c].current_price = None
        /\ pc[c] = "raised" /\ raised[c].kind = "NotSupported"
        /\ invocations[c] = 0

RetriedOperations ==
    {"get_symbol_prices", "get_recent_trades", "get_price_ticker",
     "get_all_currencies_price_ticker", "_create_order_with_retry", "cancel_order",
     "get_balance", "get_open_orders", "get_order"}

\* C5 as claimed: for each of the ten operations, get_account_id included, a
\* request failure holding "429" is retried until the fifth attempt.
C5_Original ==
    \A c \in Calls :
        (/\ op[c] \in RetriedOperations \cup {"get_account_id"}
         /\ FailsWithMarker(outcome[c])
         /\ outcome[c].err.attempt < 5)
        => pc[c] = "awaiting" /\ invocations[c] = outcome[c].err.attempt + 1

\* C5 as amended: for each of the nine operations other than get_account_id
\* (create_order through _create_order_with_retry), a request failure holding
\* "429" is followed by another request until the fifth attempt, whose failure
\* is raised; get_account_id is not wrapped: it makes one request, returns the
\* default account id on a ccxt BaseError and lets any other error through.
C5_RetriedOperations ==
    \A c \in Calls :
        /\ (op[c] \in RetriedOperations /\ FailsWithMarker(outcome[c]))
           => /\ entered[c]
              /\ outcome[c].err.attempt <= 5
              /\ outcome[c].err.attempt < 5 =>
                   /\ pc[c] = "awaiting"
                   /\ invocations[c] = outcome[c].err.attempt + 1
              /\ outcome[c].err.attempt = 5 =>
                   pc[c] = "raised" /\ invocations[c] = 5
        /\ op[c] = "get_account_id"
           => /\ ~entered[c]
              /\ invocations[c] = 1
              /\ pc[c] = "awaiting" <=> outcome[c] = NoOutcome
              /\ outcome[c].ok => pc[c] = "returned" /\ result[c] = <<"response", 1>>
              /\ (~outcome[c].ok /\ outcome[c].err.kind = "BaseError")
                 => pc[c] = "returned" /\ result[c] = <<"default_account_id", 0>>
              /\ (/\ outcome[c] # NoOutcome /\ ~outcome[c].ok
                  /\ outcome[c].err.kind # "BaseError")
                 => pc[c] = "raised" /\ raised[c] = outcome[c].err

C5_Witness ==
    \E c \in Calls :
        /\ op[c] = "get_order" /\ pc[c] = "awaiting"
        /\ invocations[c] = 5 /\ marker_failures[c] = 4
        /\ FailsWithMarker(outcome[c]) /\ outcome[c].err.attempt = 4

\* C6: the parameters get_symbol_prices sends hold limit = the requested limit
\* when there is one and it is at most 300, else 300; without a caller's since,
\* since = now - (time frame in milliseconds * limit); with a caller's since,
\* that since, and the limit still.  (A requested limit of 0 is read here as no
\* limit, which is the weaker reading: the code's truth test takes 0 for None.)
C6_OhlcvParams ==
    \A c \in Calls :
        (op[c] = "get_symbol_prices" /\ invocations[c] >= 1) =>
            LET asked == args[c].limit
                lim == IF asked \notin {None, Some(0)} /\ Val(asked) <= 300
                       THEN Val(asked) ELSE 300
                tf_ms == (IF args[c].time_frame = "1m" THEN 1 ELSE 60) * 60000
            IN /\ "limit" \in DOMAIN request[c]
               /\ request[c].limit = lim
               /\ "since" \in DOMAIN request[c]
               /\ request[c].since = IF "since" \in DOMAIN args[c].kwargs
                                     THEN args[c].kwargs.since
                                     ELSE now[c] - (tf_ms * lim)

\* C7: after fix_order, an order that came without a type is "stop_loss" when
\* its stopPrice is set, whatever its price, else "market" when its price is
\* unset, else "limit"; an order that came with a type keeps it; the type is
\* never unset.
C7_TypeInference ==
    (kind = "order" /\ order_passes >= 1) =>
        /\ fixed_order.type # None
        /\ raw_order.type # None => fixed_order.type = raw_order.type
        /\ (raw_order.type = None /\ raw_order.stopPrice # None)
           => fixed_order.type = Some("stop_loss")
        /\ (raw_order.type = None /\ raw_order.stopPrice = None /\ raw_order.price = None)
           => fixed_order.type = Some("market")
        /\ (raw_order.type = None /\ raw_order.stopPrice = None /\ raw_order.price # None)
           => fixed_order.type = Some("limit")

C7_Witness ==
    /\ kind = "order" /\ order_passes = 1
    /\ raw_order.type = None /\ raw_order.stopPrice = Some(100) /\ raw_order.price = None
    /\ fixed_order.type = Some("stop_loss")

\* C8: fix_order turns status "PENDING" into "pending_creation" and
\* "CANCEL_QUEUED" into "pending_cancel" and keeps any other status; fix_trades
\* gives every trade of the list the status "closed", whatever it had.
C8_StatusRemap ==
    /\ (kind = "order" /\ order_passes >= 1) =>
          fixed_order.status =
              IF raw_order.status = Some("PENDING") THEN Some("pending_creation")
              ELSE IF raw_order.status = Some("CANCEL_QUEUED") THEN Some("pending_cancel")
              ELSE raw_order.status
    /\ (kind = "trades" /\ trades_done) =>
          /\ Len(fixed_trades) = Len(raw_trades)
          /\ \A k \in 1..Len(fixed_trades) : fixed_trades[k].status = Some("closed")

C8_Witness ==
    /\ kind = "trades" /\ trades_done /\ Len(raw_trades) = 2
    /\ raw_trades[1].status = Some("open") /\ raw_trades[2].status = None
    /\ fixed_trades[1].status = Some("closed") /\ fixed_trades[2].status = Some("closed")

\* C9: a second (or later) pass of fix_order over an order it has fixed leaves
\* the order as the pass before left it.
C9_FixOrderIdempotent ==
    (kind = "order" /\ order_passes >= 2) => fixed_order = prev_order

C9_Witness ==
    /\ kind = "order" /\ order_passes = 2
    /\ raw_order.type = None /\ raw_order.status = Some("PENDING")
    /\ raw_order.amount = None /\ raw_order.filled = Some(3)
    /\ fixed_order.amount = Some(3) /\ fixed_order # raw_order

\* C10: a retrier call runs the wrapped function at least once and at most
\* five times; while it awaits a run, its loop index counts its own failed
\* runs; a run that succeeds after k-1 failures holding "429" ends the call
\* with that run's result and no error; and a call gives up with the new
\* FailedRequest only after five runs of its own, whatever the other calls do.
C10_BoundedLocalAttempts ==
    \A c \in Calls :
        entered[c] =>
            /\ invocations[c] >= 1
            /\ invocations[c] <= 5
            /\ pc[c] = "awaiting" =>
                  /\ i[c] = invocations[c] - 1
                  /\ marker_failures[c] = invocations[c] - 1
            /\ outcome[c].ok =>
                  /\ pc[c] = "returned"
                  /\ result[c] = <<"response", invocations[c]>>
                  /\ marker_failures[c] = invocations[c] - 1
                  /\ raised[c] = NoError
            /\ (pc[c] = "raised" /\ raised[c].attempt = 0) =>
                  invocations[c] = 5 /\ marker_failures[c] = 5

C10_Witness ==
    \E c, d \in Calls :
        /\ c # d
        /\ pc[c] = "returned" /\ invocations[c] = 3 /\ marker_failures[c] = 2
        /\ result[c] = <<"response", 3>>
        /\ pc[d] = "awaiting" /\ invocations[d] = 2 /\ i[d] = 1

====
